---- MODULE Spec2Model ----
(***************************************************************************)
(* A model of api/models.py: the Plist document store and the MunkiFile   *)
(* blob store over one repository directory tree, with the version-control *)
(* mirror (MunkiGit) as an external call.                                  *)
(*                                                                         *)
(* The filesystem is a function from paths (sequences of names below       *)
(* REPO_DIR) to nodes.  Every handler is one action; the I/O calls it      *)
(* makes are recorded, in order, in the events of the call record `last`.  *)
(* An I/O call may fail: the call's `fault` input names the call that      *)
(* fails (disk full, permission denied).  MunkiGit is imported from        *)
(* munkiwebadmin.utils; its failure is an OSError raised by the call (the  *)
(* git executable of settings.GIT_PATH cannot be run), the fault "mirror". *)
(* The callers of one run work in one kind directory, repokind.            *)
(*                                                                         *)
(* Spec takes every handler as one atomic action.  SpecConc runs two       *)
(* callers at once, one filesystem call of one caller per step: `calls`    *)
(* holds each caller's arguments and position, `log` the filesystem calls  *)
(* made so far, in order.  SpecList lists trees that hold dot files and    *)
(* dot directories; SpecPath calls the handlers with pathnames that hold   *)
(* ".." or start with a slash.                                             *)
(***************************************************************************)
EXTENDS Integers, Sequences, FiniteSets, TLC

VARIABLES
    fs,      \* the repository tree: path -> node
    GIT,     \* settings.GIT_PATH is set (the mirror is enabled)
    last,    \* the record of the call that completed last
    repokind, \* the kind directory this run's callers work in
    calls,   \* SpecConc: caller -> the call it is making and where it stands
    log      \* SpecConc: the <<caller, I/O call>> pairs so far, in order

vars == <<fs, GIT, last, repokind, calls, log>>

----------------------------------------------------------------------------
(* Names, kinds, pathnames                                                 *)

\* names that start with a period
DotNames == {".git", ".svn", ".h", ".x"}

startswith_dot(name) == name \in DotNames

\* the kinds callers of this model use; "catalogs" has no template in new
Kinds == {"manifests", "pkgsinfo", "catalogs"}

\* the deepest pathname callers use has MaxDepth components
MaxDepth == 2

\* the pathnames callers of the CRUD operations use: a, a/b, ...; a pathname
\* is the sequence of its slash-separated components, so that what is a file
\* for one pathname is a parent directory for the next
Pathnames == { SubSeq(<<"a", "b", "c", "d", "e">>, 1, n) : n \in 1..MaxDepth }

Users == {"", "admin"}

\* A pathname with a leading slash has "/" as its first component.  A path
\* is written from REPO_DIR, which is <<>>: a path that starts with ".." is
\* in a directory above REPO_DIR, one that starts with "/" is absolute.

\* os.path.join(a, b): an absolute b discards a
join(a, b) == IF b # <<>> /\ b[1] = "/" THEN b ELSE a \o b

RECURSIVE LookupFrom(_, _)
\* the entry the kernel's lookup of a path reaches, from the directory at
\* `at`, every directory on the way being there: ".." is the parent
\* directory, and that of "/" is "/"
LookupFrom(at, rest) ==
    IF rest = <<>> THEN at
    ELSE IF Head(rest) # ".." THEN LookupFrom(Append(at, Head(rest)), Tail(rest))
    ELSE IF at = <<>> \/ at[Len(at)] = ".." THEN LookupFrom(Append(at, ".."), Tail(rest))
    ELSE IF at = <<"/">> THEN LookupFrom(at, Tail(rest))
    ELSE LookupFrom(SubSeq(at, 1, Len(at) - 1), Tail(rest))

\* os.path.join(REPO_DIR, kind, pathname), as the entry the path names
JoinPath(kind, pathname) == LookupFrom(<<>>, join(<<kind>>, pathname))

\* os.path.dirname
dirname(path) == SubSeq(path, 1, Len(path) - 1)

----------------------------------------------------------------------------
(* The filesystem                                                          *)

DirNode == [type |-> "dir", data |-> <<>>]

FileNode(bytes) == [type |-> "file", data |-> bytes]

\* os.path.exists
exists(f, path) == path \in DOMAIN f

isdir(f, path) == exists(f, path) /\ f[path].type = "dir"

isfile(f, path) == exists(f, path) /\ f[path].type = "file"

Prefixes(path) == { SubSeq(path, 1, n) : n \in 0..Len(path) }

\* os.makedirs can succeed: no component of the path is a regular file
CanMakedirs(f, path) == \A p \in Prefixes(path) : ~isfile(f, p)

\* os.makedirs: every missing component becomes a directory
makedirs(f, path) ==
    [p \in DOMAIN f \cup Prefixes(path) |-> IF p \in DOMAIN f THEN f[p] ELSE DirNode]

\* open(filepath, 'w') can succeed: the parent is a directory and the path
\* is not one
CanOpenW(f, path) == isdir(f, dirname(path)) /\ ~isdir(f, path)

\* the file's content after fileref.write calls and close
PutFile(f, path, bytes) ==
    [p \in DOMAIN f \cup {path} |-> IF p = path THEN FileNode(bytes) ELSE f[p]]

\* open(filepath, 'w'): creates the file, or truncates it
OpenW(f, path) == PutFile(f, path, <<>>)

\* os.unlink can succeed: the path is a regular file
CanUnlink(f, path) == isfile(f, path)

unlink(f, path) == [p \in DOMAIN f \ {path} |-> f[p]]

\* the repository right after setup: REPO_DIR exists and is empty
EmptyRepo == [p \in {<<>>} |-> DirNode]

----------------------------------------------------------------------------
(* Documents and their plist encoding                                      *)
(*                                                                         *)
(* A document is a set of <<key, value>> pairs with distinct keys; a value *)
(* is <<"string", s>> or <<"array", s1, ..., sn>>.  File content is a      *)
(* sequence of tokens: tags, and the text between them.                    *)

NoKey == "(no key)"

\* the keys of the model's documents, in the order items.sort() gives them
KeyOrder ==
    << "catalogs", "description", "display_name", "included_manifests",
       "managed_installs", "managed_uninstalls", "managed_updates", "name",
       "optional_installs", "version" >>

Keys(doc) == { kv[1] : kv \in doc }

ValueOf(doc, k) == (CHOOSE kv \in doc : kv[1] = k)[2]

\* the template Plist.new writes for kind 'manifests'
ManifestTemplate ==
    { <<section, <<"array">>>> :
        section \in { "catalogs", "included_manifests", "managed_installs",
                      "managed_uninstalls", "managed_updates",
                      "optional_installs" } }

\* the template Plist.new writes for kind 'pkgsinfo'
PkgsinfoTemplate ==
    { <<"name", <<"string", "ProductName">>>>,
      <<"display_name", <<"string", "Display Name">>>>,
      <<"description", <<"string", "Product description">>>>,
      <<"version", <<"string", "1.0">>>>,
      <<"catalogs", <<"array", "development">>>> }

\* documents callers supply
Doc1 == { <<"name", <<"string", "R&D">>>>, <<"catalogs", <<"array", "testing">>>> }

DocU == { <<"name", <<"string", "Caf(U+00E9)">>>> }

EmptyDoc == {}

\* text with a character outside ASCII
NonAsciiText == {"Caf(U+00E9)"}

\* plistlib._escapeAndEncode, on the model's texts
escape(text) == IF text = "R&D" THEN "R&amp;D" ELSE text

\* expat's decoding of character data
unescape(text) == IF text = "R&amp;D" THEN "R&D" ELSE text

RECURSIVE writeStrings(_)
writeStrings(items) ==
    IF items = <<>> THEN <<>>
    ELSE <<"<string>", escape(Head(items)), "</string>">> \o writeStrings(Tail(items))

\* PlistWriter.writeValue
writeValue(v) ==
    IF v[1] = "string" THEN writeStrings(<<v[2]>>)
    ELSE <<"<array>">> \o writeStrings(Tail(v)) \o <<"</array>">>

RECURSIVE writeDict(_, _)
\* PlistWriter.writeDict: the items in key order
writeDict(doc, keys) ==
    IF keys = <<>> THEN <<>>
    ELSE (IF Head(keys) \in Keys(doc)
          THEN <<"<key>", Head(keys), "</key>">> \o writeValue(ValueOf(doc, Head(keys)))
          ELSE <<>>)
         \o writeDict(doc, Tail(keys))

\* plistlib.writePlistToString
writePlistToString(doc) ==
    <<"<?xml>", "<plist>", "<dict>">> \o writeDict(doc, KeyOrder) \o <<"</dict>", "</plist>">>

\* the implicit ASCII decoding of data.encode('utf-8') on a byte string succeeds
IsAscii(bytes) == \A i \in 1..Len(bytes) : bytes[i] \notin NonAsciiText

OpenTags == {"<plist>", "<dict>", "<key>", "<string>", "<array>", "<integer>"}

CloseTags == {"</plist>", "</dict>", "</key>", "</string>", "</array>", "</integer>"}

CloseOf(tag) ==
    CASE tag = "<plist>" -> "</plist>"
      [] tag = "<dict>" -> "</dict>"
      [] tag = "<key>" -> "</key>"
      [] tag = "<string>" -> "</string>"
      [] tag = "<array>" -> "</array>"
      [] tag = "<integer>" -> "</integer>"

\* text int() accepts
IntText == {"0", "1", "42"}

\* the parser before the first token
ParserInit ==
    [ els |-> <<>>, closed |-> FALSE, data |-> "", key |-> NoKey,
      dictOpen |-> FALSE, dict |-> {}, arrOpen |-> FALSE, arr |-> <<>>,
      arrKey |-> NoKey, root |-> "unset", err |-> "" ]

SetKey(doc, k, v) == { kv \in doc : kv[1] # k } \cup { <<k, v>> }

\* PlistParser.addObject of a scalar value
addObject(m, v) ==
    IF m.key # NoKey
    THEN IF m.arrOpen THEN [m EXCEPT !.err = "TypeError"]
         ELSE IF m.dictOpen
              THEN [m EXCEPT !.dict = SetKey(m.dict, m.key, v), !.key = NoKey]
              ELSE [m EXCEPT !.err = "IndexError"]
    ELSE IF m.arrOpen THEN [m EXCEPT !.arr = Append(m.arr, v[2])]
         ELSE IF m.dictOpen THEN [m EXCEPT !.err = "AttributeError"]
              ELSE [m EXCEPT !.root = "other"]

\* PlistParser.handleBeginElement, after expat's own checks
BeginElement(m, tag) ==
    LET m1 == [m EXCEPT !.els = Append(m.els, tag), !.data = ""] IN
    CASE tag = "<dict>" ->
            IF m.dictOpen \/ m.arrOpen \/ m.root # "unset"
            THEN [m1 EXCEPT !.err = "Unsupported"]
            ELSE [m1 EXCEPT !.dictOpen = TRUE, !.dict = {}, !.root = "dict"]
      [] tag = "<array>" ->
            IF m.arrOpen THEN [m1 EXCEPT !.err = "Unsupported"]
            ELSE IF m.key # NoKey
                 THEN IF m.dictOpen
                      THEN [m1 EXCEPT !.arrOpen = TRUE, !.arr = <<>>,
                                      !.arrKey = m.key, !.key = NoKey]
                      ELSE [m1 EXCEPT !.err = "IndexError"]
                 ELSE IF m.dictOpen THEN [m1 EXCEPT !.err = "AttributeError"]
                      ELSE [m1 EXCEPT !.arrOpen = TRUE, !.arr = <<>>,
                                      !.arrKey = NoKey, !.root = "other"]
      [] OTHER -> m1

\* PlistParser.handleEndElement, after expat's own checks
EndElement(m, tag) ==
    LET els1 == SubSeq(m.els, 1, Len(m.els) - 1)
        m1 == [m EXCEPT !.els = els1, !.closed = (els1 = <<>>)]
    IN
    CASE tag = "</key>" -> [m1 EXCEPT !.key = m.data]
      [] tag = "</string>" -> addObject(m1, <<"string", unescape(m.data)>>)
      [] tag = "</integer>" ->
            IF m.data \in IntText THEN addObject(m1, <<"integer", m.data>>)
            ELSE [m1 EXCEPT !.err = "ValueError"]
      [] tag = "</array>" ->
            IF m.arrKey # NoKey
            THEN [m1 EXCEPT !.arrOpen = FALSE, !.arrKey = NoKey,
                            !.dict = SetKey(m.dict, m.arrKey, <<"array">> \o m.arr)]
            ELSE [m1 EXCEPT !.arrOpen = FALSE]
      [] tag = "</dict>" -> [m1 EXCEPT !.dictOpen = FALSE]
      [] OTHER -> m1

\* one token through expat and the PlistParser handlers
ParseToken(m, tok, first) ==
    IF m.err # "" THEN m
    ELSE IF tok = "<?xml>"
         THEN IF first THEN m ELSE [m EXCEPT !.err = "ExpatError"]
    ELSE IF tok \in OpenTags
         THEN IF m.closed THEN [m EXCEPT !.err = "ExpatError"]
              ELSE BeginElement(m, tok)
    ELSE IF tok \in CloseTags
         THEN IF m.els = <<>> \/ CloseOf(m.els[Len(m.els)]) # tok
              THEN [m EXCEPT !.err = "ExpatError"]
              ELSE EndElement(m, tok)
    ELSE IF m.els = <<>> THEN [m EXCEPT !.err = "ExpatError"]
         ELSE [m EXCEPT !.data = tok]

RECURSIVE ParseFrom(_, _, _)
ParseFrom(m, bytes, i) ==
    IF i > Len(bytes) THEN m
    ELSE ParseFrom(ParseToken(m, bytes[i], i = 1), bytes, i + 1)

\* plistlib.readPlist on a file's bytes: what it returns or raises
readPlist(bytes) ==
    LET m == ParseFrom(ParserInit, bytes, 1) IN
    IF m.err # "" THEN [st |-> m.err, doc |-> {}]
    ELSE IF ~m.closed THEN [st |-> "ExpatError", doc |-> {}]
    ELSE IF m.root = "dict" THEN [st |-> "dict", doc |-> m.dict]
    ELSE IF m.root = "unset" THEN [st |-> "None", doc |-> {}]
    ELSE [st |-> "other", doc |-> {}]

\* file content that is no plist
Garbage == <<"\\x89PNG", "IHDR">>

BadInt == <<"<?xml>", "<plist>", "<integer>", "abc", "</integer>", "</plist>">>

----------------------------------------------------------------------------
(* Call records                                                            *)

\* plist_data=None, and plist_data=doc
NoContent == [isNone |-> TRUE, doc |-> {}]

Content(doc) == [isNone |-> FALSE, doc |-> doc]

\* Python's truth value of plist_data: None and the empty dict are false
Truthy(plist_data) == ~plist_data.isNone /\ plist_data.doc # {}

\* what a call returns: bytes (new), a parsed value (read), pathnames
\* (list), a path (get_fullpath)
NoRet == [bytes |-> <<>>, st |-> "none", doc |-> {}, names |-> <<>>, path |-> <<>>]

RetBytes(bytes) == [NoRet EXCEPT !.bytes = bytes]

RetValue(st, doc) == [NoRet EXCEPT !.st = st, !.doc = doc]

RetNames(names) == [NoRet EXCEPT !.names = names]

RetPath(path) == [NoRet EXCEPT !.path = path]

\* the outcome of a handler: the tree it leaves, "ok" or the exception that
\* reaches the caller, the value returned, the I/O calls made in order, and
\* the calls made to the mirror
Out(f, result, ret, events, mirror) ==
    [fs |-> f, result |-> result, ret |-> ret, events |-> events, mirror |-> mirror]

\* the five domain error kinds
DomainErrors ==
    { "FileReadError", "FileWriteError", "FileDeleteError",
      "FileDoesNotExistError", "FileAlreadyExistsError" }

\* MirrorOn without the test of user
MirrorOnGitOnly(git, user) == git

\* user and GIT
MirrorOn(git, user) == user # "" /\ git

----------------------------------------------------------------------------
(* Plist                                                                   *)

\* Plist.new, lines 109-118: open, encode, write, notify, return
PlistNewWrite(f, git, filepath, user, data, fault, ev) ==
    IF fault = "open" \/ ~CanOpenW(f, filepath)
    THEN Out(f, "FileWriteError", NoRet, ev \o <<"open:fail">>, <<>>)
    ELSE IF ~IsAscii(data)
    THEN Out(OpenW(f, filepath), "UnicodeDecodeError", NoRet, ev \o <<"open">>, <<>>)
    ELSE IF fault = "write"
    THEN Out(OpenW(f, filepath), "FileWriteError", NoRet,
             ev \o <<"open", "write:fail">>, <<>>)
    ELSE LET f1 == PutFile(f, filepath, data)
             ev1 == ev \o <<"open", "write">>
         IN  IF ~MirrorOn(git, user)
             THEN Out(f1, "ok", RetBytes(data), ev1, <<>>)
             ELSE IF fault = "mirror"
             THEN Out(f1, "FileWriteError", NoRet, ev1 \o <<"mirror:fail">>,
                      << <<"add", filepath, user>> >>)
             ELSE Out(f1, "ok", RetBytes(data), ev1 \o <<"mirror">>,
                      << <<"add", filepath, user>> >>)

\* PlistNewDoc with the manifests template short of its last section
PlistNewDocFiveSections(kind, plist_data) ==
    IF Truthy(plist_data) THEN [bound |-> TRUE, doc |-> plist_data.doc]
    ELSE IF kind = "manifests"
         THEN [bound |-> TRUE,
               doc |-> { kv \in ManifestTemplate : kv[1] # "optional_installs" }]
    ELSE IF kind = "pkgsinfo" THEN [bound |-> TRUE, doc |-> PkgsinfoTemplate]
    ELSE [bound |-> FALSE, doc |-> {}]

\* Plist.new, lines 89-107: the document to write; unbound for other kinds
PlistNewDoc(kind, plist_data) ==
    IF Truthy(plist_data) THEN [bound |-> TRUE, doc |-> plist_data.doc]
    ELSE IF kind = "manifests" THEN [bound |-> TRUE, doc |-> ManifestTemplate]
    ELSE IF kind = "pkgsinfo" THEN [bound |-> TRUE, doc |-> PkgsinfoTemplate]
    ELSE [bound |-> FALSE, doc |-> {}]

\* PlistNewExists with os.path.isfile for os.path.exists
PlistNewExistsFileOnly(f, filepath) == isfile(f, filepath)

\* Plist.new, line 78: the pathname is taken
PlistNewExists(f, filepath) == exists(f, filepath)

\* Plist.new(kind, pathname, user, plist_data)
PlistNewOut(f, git, kind, pathname, user, plist_data, fault) ==
    LET filepath == JoinPath(kind, pathname)
        plist_parent_dir == dirname(filepath)
        mk == ~exists(f, plist_parent_dir)
        f1 == IF mk THEN makedirs(f, plist_parent_dir) ELSE f
        ev == IF mk THEN <<"makedirs">> ELSE <<>>
        plist == PlistNewDoc(kind, plist_data)
    IN  IF PlistNewExists(f, filepath)
        THEN Out(f, "FileAlreadyExistsError", NoRet, <<>>, <<>>)
        ELSE IF mk /\ (fault = "makedirs" \/ ~CanMakedirs(f, plist_parent_dir))
        THEN Out(f, "FileWriteError", NoRet, <<"makedirs:fail">>, <<>>)
        ELSE IF ~plist.bound
        THEN Out(f1, "UnboundLocalError", NoRet, ev, <<>>)
        ELSE PlistNewWrite(f1, git, filepath, user, writePlistToString(plist.doc),
                           fault, ev)

\* Plist.read, lines 127-135: what becomes of readPlist's outcome
PlistReadParse(bytes) ==
    LET r == readPlist(bytes) IN
    IF r.st = "ExpatError" THEN [result |-> "ok", ret |-> RetValue("dict", {})]
    ELSE IF r.st \in {"dict", "None", "other"}
         THEN [result |-> "ok", ret |-> RetValue(r.st, r.doc)]
         ELSE [result |-> r.st, ret |-> NoRet]

\* Plist.read(kind, pathname)
PlistReadOut(f, kind, pathname, fault) ==
    LET filepath == JoinPath(kind, pathname) IN
    IF ~exists(f, filepath)
    THEN Out(f, "FileDoesNotExistError", NoRet, <<>>, <<>>)
    ELSE IF fault = "read" \/ ~isfile(f, filepath)
    THEN Out(f, "FileReadError", NoRet, <<"read:fail">>, <<>>)
    ELSE LET r == PlistReadParse(f[filepath].data)
         IN  Out(f, r.result, r.ret, <<"read">>, <<>>)

\* Plist.write, lines 150-158: open, write, notify
PlistWriteFile(f, git, filepath, user, data, fault, ev) ==
    IF fault = "open" \/ ~CanOpenW(f, filepath)
    THEN Out(f, "FileWriteError", NoRet, ev \o <<"open:fail">>, <<>>)
    ELSE IF fault = "write"
    THEN Out(OpenW(f, filepath), "FileWriteError", NoRet,
             ev \o <<"open", "write:fail">>, <<>>)
    ELSE LET f1 == PutFile(f, filepath, data)
             ev1 == ev \o <<"open", "write">>
         IN  IF ~MirrorOn(git, user)
             THEN Out(f1, "ok", NoRet, ev1, <<>>)
             ELSE IF fault = "mirror"
             THEN Out(f1, "FileWriteError", NoRet, ev1 \o <<"mirror:fail">>,
                      << <<"add", filepath, user>> >>)
             ELSE Out(f1, "ok", NoRet, ev1 \o <<"mirror">>,
                      << <<"add", filepath, user>> >>)

\* PlistWriteOut as an update that requires the file
PlistWriteOutUpdateOnly(f, git, data, kind, pathname, user, fault) ==
    IF ~exists(f, JoinPath(kind, pathname))
    THEN Out(f, "FileDoesNotExistError", NoRet, <<>>, <<>>)
    ELSE PlistWriteFile(f, git, JoinPath(kind, pathname), user, data, fault, <<>>)

\* Plist.write(data, kind, pathname, user)
PlistWriteOut(f, git, data, kind, pathname, user, fault) ==
    LET filepath == JoinPath(kind, pathname)
        plist_parent_dir == dirname(filepath)
        mk == ~exists(f, plist_parent_dir)
        f1 == IF mk THEN makedirs(f, plist_parent_dir) ELSE f
        ev == IF mk THEN <<"makedirs">> ELSE <<>>
    IN  IF mk /\ (fault = "makedirs" \/ ~CanMakedirs(f, plist_parent_dir))
        THEN Out(f, "FileWriteError", NoRet, <<"makedirs:fail">>, <<>>)
        ELSE PlistWriteFile(f1, git, filepath, user, data, fault, ev)

\* PlistDeleteFile without the os.unlink
PlistDeleteFileKept(f, git, filepath, user, fault) ==
    IF ~MirrorOn(git, user)
    THEN Out(f, "ok", NoRet, <<"unlink">>, <<>>)
    ELSE Out(f, "ok", NoRet, <<"unlink", "mirror">>, << <<"delete", filepath, user>> >>)

\* Plist.delete, lines 168-175: unlink, notify
PlistDeleteFile(f, git, filepath, user, fault) ==
    IF fault = "unlink" \/ ~CanUnlink(f, filepath)
    THEN Out(f, "FileDeleteError", NoRet, <<"unlink:fail">>, <<>>)
    ELSE LET f1 == unlink(f, filepath) IN
         IF ~MirrorOn(git, user)
         THEN Out(f1, "ok", NoRet, <<"unlink">>, <<>>)
         ELSE IF fault = "mirror"
         THEN Out(f1, "FileDeleteError", NoRet, <<"unlink", "mirror:fail">>,
                  << <<"delete", filepath, user>> >>)
         ELSE Out(f1, "ok", NoRet, <<"unlink", "mirror">>,
                  << <<"delete", filepath, user>> >>)

\* Plist.delete(kind, pathname, user)
PlistDeleteOut(f, git, kind, pathname, user, fault) ==
    LET filepath == JoinPath(kind, pathname) IN
    IF ~exists(f, filepath)
    THEN Out(f, "FileDoesNotExistError", NoRet, <<>>, <<>>)
    ELSE PlistDeleteFile(f, git, filepath, user, fault)

----------------------------------------------------------------------------
(* MunkiFile                                                               *)

\* MunkiFile.get_fullpath(kind, pathname)
get_fullpath(kind, pathname) == JoinPath(kind, pathname)

\* the call of MunkiFile.get_fullpath: a value, no I/O call
MunkiGetFullpathOut(f, kind, pathname) ==
    Out(f, "ok", RetPath(get_fullpath(kind, pathname)), <<>>, <<>>)

RECURSIVE Concat(_)
Concat(chunks) == IF chunks = <<>> THEN <<>> ELSE Head(chunks) \o Concat(Tail(chunks))

\* MunkiWriteOut as an update that requires the file
MunkiWriteOutUpdateOnly(f, kind, fileupload, pathname, user, fault) ==
    IF ~exists(f, JoinPath(kind, pathname))
    THEN Out(f, "FileDoesNotExistError", NoRet, <<>>, <<>>)
    ELSE Out(PutFile(f, JoinPath(kind, pathname), Concat(fileupload)), "ok", NoRet,
             <<"open", "write">>, <<>>)

\* MunkiWriteOut that notifies the mirror of the file when user is given
MunkiWriteOutMirrored(f, kind, fileupload, pathname, user, fault) ==
    IF ~CanOpenW(f, JoinPath(kind, pathname))
    THEN Out(f, "FileWriteError", NoRet, <<"open:fail">>, <<>>)
    ELSE IF user = ""
    THEN Out(PutFile(f, JoinPath(kind, pathname), Concat(fileupload)), "ok", NoRet,
             <<"open", "write">>, <<>>)
    ELSE Out(PutFile(f, JoinPath(kind, pathname), Concat(fileupload)), "ok", NoRet,
             <<"open", "write", "mirror">>,
             << <<"add", JoinPath(kind, pathname), user>> >>)

\* MunkiFile.write(kind, fileupload, pathname, user); the fault "write"
\* strikes the first fileref.write, "write2" the second
MunkiWriteOut(f, kind, fileupload, pathname, user, fault) ==
    LET filepath == JoinPath(kind, pathname) IN
    IF fault = "open" \/ ~CanOpenW(f, filepath)
    THEN Out(f, "FileWriteError", NoRet, <<"open:fail">>, <<>>)
    ELSE IF fault = "write" /\ Len(fileupload) >= 1
    THEN Out(OpenW(f, filepath), "FileWriteError", NoRet, <<"open", "write:fail">>, <<>>)
    ELSE IF fault = "write2" /\ Len(fileupload) >= 2
    THEN Out(PutFile(f, filepath, fileupload[1]), "FileWriteError", NoRet,
             <<"open", "write", "write:fail">>, <<>>)
    ELSE Out(PutFile(f, filepath, Concat(fileupload)), "ok", NoRet,
             <<"open", "write">>, <<>>)

\* MunkiFile.new, line 205: the pathname is taken
MunkiNewExists(f, filepath) == exists(f, filepath)

\* MunkiFile.new(kind, fileupload, pathname, user)
MunkiNewOut(f, kind, fileupload, pathname, user, fault) ==
    LET filepath == JoinPath(kind, pathname)
        file_parent_dir == dirname(filepath)
        mk == ~exists(f, file_parent_dir)
        f1 == IF mk THEN makedirs(f, file_parent_dir) ELSE f
    IN  IF MunkiNewExists(f, filepath)
        THEN Out(f, "FileAlreadyExistsError", NoRet, <<>>, <<>>)
        ELSE IF mk /\ (fault = "makedirs" \/ ~CanMakedirs(f, file_parent_dir))
        THEN Out(f, "FileWriteError", NoRet, <<"makedirs:fail">>, <<>>)
        ELSE LET w == MunkiWriteOut(f1, kind, fileupload, pathname, user, fault)
             IN  [w EXCEPT !.events = (IF mk THEN <<"makedirs">> ELSE <<>>) \o w.events]

\* MunkiDeleteOut with no except clause around os.unlink
MunkiDeleteOutUncaught(f, kind, pathname, user, fault) ==
    IF ~exists(f, JoinPath(kind, pathname))
    THEN Out(f, "FileDoesNotExistError", NoRet, <<>>, <<>>)
    ELSE IF fault = "unlink" \/ ~CanUnlink(f, JoinPath(kind, pathname))
    THEN Out(f, "OSError", NoRet, <<"unlink:fail">>, <<>>)
    ELSE Out(unlink(f, JoinPath(kind, pathname)), "ok", NoRet, <<"unlink">>, <<>>)

\* MunkiFile.delete(kind, pathname, user)
MunkiDeleteOut(f, kind, pathname, user, fault) ==
    LET filepath == JoinPath(kind, pathname) IN
    IF ~exists(f, filepath)
    THEN Out(f, "FileDoesNotExistError", NoRet, <<>>, <<>>)
    ELSE IF fault = "unlink" \/ ~CanUnlink(f, filepath)
    THEN Out(f, "FileDeleteError", NoRet, <<"unlink:fail">>, <<>>)
    ELSE Out(unlink(f, filepath), "ok", NoRet, <<"unlink">>, <<>>)

----------------------------------------------------------------------------
(* The calls                                                               *)

\* what callers pass as plist_data, as data and as fileupload
PlistInputs == {NoContent, Content(EmptyDoc), Content(Doc1), Content(DocU)}

DataInputs == {writePlistToString(Doc1), BadInt}

Uploads == { <<<<"\\x89PNG">>, <<"IHDR">>>> }

\* the record of a completed call, with the tree it found
Record(op, kind, pathname, user, plist_data, data, fileupload, out) ==
    [ op |-> op, kind |-> kind, pathname |-> pathname, user |-> user,
      plist_data |-> plist_data, data |-> data, fileupload |-> fileupload,
      result |-> out.result, ret |-> out.ret, events |-> out.events,
      mirror |-> out.mirror, order |-> <<>>, pre |-> fs ]

NoCall ==
    [ op |-> "none", kind |-> "", pathname |-> <<>>, user |-> "",
      plist_data |-> NoContent, data |-> <<>>, fileupload |-> <<>>,
      result |-> "ok", ret |-> NoRet, events |-> <<>>, mirror |-> <<>>,
      order |-> <<>>, pre |-> EmptyRepo ]

\* no concurrent callers
NoCalls == <<>>

Init ==
    /\ fs = EmptyRepo
    /\ GIT \in BOOLEAN
    /\ last = NoCall
    /\ repokind \in Kinds
    /\ calls = NoCalls
    /\ log = <<>>

PlistNew ==
    \E pathname \in Pathnames, user \in Users, plist_data \in PlistInputs,
       fault \in {"none", "makedirs", "open", "write", "mirror"} :
        LET out == PlistNewOut(fs, GIT, repokind, pathname, user, plist_data, fault) IN
        /\ fs' = out.fs
        /\ last' = Record("Plist.new", repokind, pathname, user, plist_data, <<>>, <<>>, out)
        /\ UNCHANGED <<GIT, repokind, calls, log>>

PlistRead ==
    \E pathname \in Pathnames, fault \in {"none", "read"} :
        LET out == PlistReadOut(fs, repokind, pathname, fault) IN
        /\ fs' = out.fs
        /\ last' = Record("Plist.read", repokind, pathname, "", NoContent, <<>>, <<>>, out)
        /\ UNCHANGED <<GIT, repokind, calls, log>>

PlistWrite ==
    \E pathname \in Pathnames, user \in Users, data \in DataInputs,
       fault \in {"none", "makedirs", "open", "write", "mirror"} :
        LET out == PlistWriteOut(fs, GIT, data, repokind, pathname, user, fault) IN
        /\ fs' = out.fs
        /\ last' = Record("Plist.write", repokind, pathname, user, NoContent, data, <<>>, out)
        /\ UNCHANGED <<GIT, repokind, calls, log>>

PlistDelete ==
    \E pathname \in Pathnames, user \in Users, fault \in {"none", "unlink", "mirror"} :
        LET out == PlistDeleteOut(fs, GIT, repokind, pathname, user, fault) IN
        /\ fs' = out.fs
        /\ last' = Record("Plist.delete", repokind, pathname, user, NoContent, <<>>, <<>>, out)
        /\ UNCHANGED <<GIT, repokind, calls, log>>

MunkiNew ==
    \E pathname \in Pathnames, user \in Users, fileupload \in Uploads,
       fault \in {"none", "makedirs", "open", "write", "write2"} :
        LET out == MunkiNewOut(fs, repokind, fileupload, pathname, user, fault) IN
        /\ fs' = out.fs
        /\ last' = Record("MunkiFile.new", repokind, pathname, user, NoContent, <<>>, fileupload, out)
        /\ UNCHANGED <<GIT, repokind, calls, log>>

MunkiWrite ==
    \E pathname \in Pathnames, user \in Users, fileupload \in Uploads,
       fault \in {"none", "open", "write", "write2"} :
        LET out == MunkiWriteOut(fs, repokind, fileupload, pathname, user, fault) IN
        /\ fs' = out.fs
        /\ last' = Record("MunkiFile.write", repokind, pathname, user, NoContent, <<>>, fileupload, out)
        /\ UNCHANGED <<GIT, repokind, calls, log>>

MunkiGetFullpath ==
    \E pathname \in Pathnames :
        LET out == MunkiGetFullpathOut(fs, repokind, pathname) IN
        /\ fs' = out.fs
        /\ last' = Record("MunkiFile.get_fullpath", repokind, pathname, "", NoContent,
                          <<>>, <<>>, out)
        /\ UNCHANGED <<GIT, repokind, calls, log>>

MunkiDelete ==
    \E pathname \in Pathnames, user \in Users, fault \in {"none", "unlink"} :
        LET out == MunkiDeleteOut(fs, repokind, pathname, user, fault) IN
        /\ fs' = out.fs
        /\ last' = Record("MunkiFile.delete", repokind, pathname, user, NoContent, <<>>, <<>>, out)
        /\ UNCHANGED <<GIT, repokind, calls, log>>

----------------------------------------------------------------------------
(* Listing                                                                 *)

\* the names of the entries of directory top
listdir(f, top) == { p[Len(p)] : p \in { q \in DOMAIN f : q # <<>> /\ dirname(q) = top } }

\* os.walk's dirnames and filenames of top, in the order listdir gives:
\* order is a sequence that holds every name once
walk_dirnames(f, top, order) ==
    SelectSeq(order, LAMBDA n : n \in listdir(f, top) /\ isdir(f, top \o <<n>>))

walk_filenames(f, top, order) ==
    SelectSeq(order, LAMBDA n : n \in listdir(f, top) /\ ~isdir(f, top \o <<n>>))

RemoveAt(seq, i) == SubSeq(seq, 1, i - 1) \o SubSeq(seq, i + 1, Len(seq))

RECURSIVE PlistPrune(_, _)
\* Plist.list, lines 64-67: for dirname in dirnames, from the i-th element on:
\* dirnames.remove(dirname) while the loop walks the same list
PlistPrune(dirnames, i) ==
    IF i > Len(dirnames) THEN dirnames
    ELSE IF startswith_dot(dirnames[i])
         THEN PlistPrune(RemoveAt(dirnames, i), i + 1)
         ELSE PlistPrune(dirnames, i + 1)

\* ListFiles that gives the file names without their directory
ListFilesBasename(subdir, filenames) ==
    [ i \in 1..Len(SelectSeq(filenames, LAMBDA n : ~startswith_dot(n))) |->
        <<SelectSeq(filenames, LAMBDA n : ~startswith_dot(n))[i]>> ]

\* lines 68-70: the pathnames of the files of one directory, subdir being
\* dirpath without kind_dir
ListFiles(subdir, filenames) ==
    [ i \in 1..Len(SelectSeq(filenames, LAMBDA n : ~startswith_dot(n))) |->
        subdir \o <<SelectSeq(filenames, LAMBDA n : ~startswith_dot(n))[i]>> ]

RECURSIVE PlistWalk(_, _, _, _)
RECURSIVE PlistWalkDirs(_, _, _, _, _)
\* the loop of Plist.list over os.walk, from dirpath = kind_dir + subdir down
PlistWalk(f, kind_dir, subdir, order) ==
    LET dirpath == kind_dir \o subdir
        dirnames == PlistPrune(walk_dirnames(f, dirpath, order), 1)
    IN  ListFiles(subdir, walk_filenames(f, dirpath, order))
        \o PlistWalkDirs(f, kind_dir, subdir, dirnames, order)

PlistWalkDirs(f, kind_dir, subdir, dirnames, order) ==
    IF dirnames = <<>> THEN <<>>
    ELSE PlistWalk(f, kind_dir, subdir \o <<Head(dirnames)>>, order)
         \o PlistWalkDirs(f, kind_dir, subdir, Tail(dirnames), order)

\* Plist.list(kind)
PlistListOut(f, kind, order) ==
    LET kind_dir == JoinPath(kind, <<>>) IN
    IF ~isdir(f, kind_dir) THEN Out(f, "ok", RetNames(<<>>), <<"walk">>, <<>>)
    ELSE Out(f, "ok", RetNames(PlistWalk(f, kind_dir, <<>>, order)), <<"walk">>, <<>>)

\* the names of the entries at any depth below top
NamesBelow(f, top) ==
    { p[Len(p)] : p \in { q \in DOMAIN f : Len(q) > Len(top)
                                          /\ SubSeq(q, 1, Len(top)) = top } }

\* those of them that name a directory
DirNamesBelow(f, top) ==
    { p[Len(p)] : p \in { q \in DOMAIN f : Len(q) > Len(top)
                                          /\ SubSeq(q, 1, Len(top)) = top
                                          /\ isdir(f, q) } }

\* the sequences that hold every element of S once
Orderings(S) ==
    { q \in [1..Cardinality(S) -> S] :
        \A i, j \in 1..Cardinality(S) : q[i] = q[j] => i = j }

\* the orders in which listdir may give the names below top.  os.walk
\* splits each listing into directories and files and keeps the order of
\* each, so an order is the directory names in any order followed by the
\* other names in any order
Orders(f, top) ==
    { d \o n : d \in Orderings(DirNamesBelow(f, top)),
               n \in Orderings(NamesBelow(f, top) \ DirNamesBelow(f, top)) }

\* the files, below a kind directory, of the trees that are listed
ListFilePaths ==
    { <<"a">>, <<".x">>, <<"d", "a">>, <<".git", "a">>, <<".h", "a">>,
      <<"d", ".h", "a">> }

\* the tree with the given files below kind_dir, and the directories they need
TreeOf(kind_dir, files) ==
    LET paths == { kind_dir \o p : p \in files }
        dirs == UNION { Prefixes(dirname(p)) : p \in paths } \cup Prefixes(kind_dir)
    IN  [ p \in dirs \cup paths |-> IF p \in dirs THEN DirNode ELSE FileNode(<<>>) ]

InitList ==
    /\ repokind = "manifests"
    /\ fs \in { TreeOf(JoinPath(repokind, <<>>), files) : files \in SUBSET ListFilePaths }
    /\ GIT = FALSE
    /\ last = NoCall
    /\ calls = NoCalls
    /\ log = <<>>

PlistList ==
    \E order \in Orders(fs, JoinPath(repokind, <<>>)) :
        LET out == PlistListOut(fs, repokind, order) IN
        /\ fs' = out.fs
        /\ last' = [ Record("Plist.list", repokind, <<>>, "", NoContent, <<>>, <<>>, out)
                       EXCEPT !.order = order ]
        /\ UNCHANGED <<GIT, repokind, calls, log>>

\* MunkiFile.list, line 190
skipdirs == {".svn", ".git", ".AppleDouble"}

\* MunkiFile.list, lines 192-194: each skipdir found in dirnames is removed
\* (a directory holds a name once); no other directory is removed
MunkiPrune(dirnames) == SelectSeq(dirnames, LAMBDA n : n \notin skipdirs)

RECURSIVE MunkiWalk(_, _, _, _)
RECURSIVE MunkiWalkDirs(_, _, _, _, _)
\* the loop of MunkiFile.list over os.walk, from dirpath = files_dir + subdir down
MunkiWalk(f, files_dir, subdir, order) ==
    LET dirpath == files_dir \o subdir
        dirnames == MunkiPrune(walk_dirnames(f, dirpath, order))
    IN  ListFiles(subdir, walk_filenames(f, dirpath, order))
        \o MunkiWalkDirs(f, files_dir, subdir, dirnames, order)

MunkiWalkDirs(f, files_dir, subdir, dirnames, order) ==
    IF dirnames = <<>> THEN <<>>
    ELSE MunkiWalk(f, files_dir, subdir \o <<Head(dirnames)>>, order)
         \o MunkiWalkDirs(f, files_dir, subdir, Tail(dirnames), order)

\* MunkiFile.list(kind)
MunkiListOut(f, kind, order) ==
    LET files_dir == JoinPath(kind, <<>>) IN
    IF ~isdir(f, files_dir) THEN Out(f, "ok", RetNames(<<>>), <<"walk">>, <<>>)
    ELSE Out(f, "ok", RetNames(MunkiWalk(f, files_dir, <<>>, order)), <<"walk">>, <<>>)

MunkiList ==
    \E order \in Orders(fs, JoinPath(repokind, <<>>)) :
        LET out == MunkiListOut(fs, repokind, order) IN
        /\ fs' = out.fs
        /\ last' = [ Record("MunkiFile.list", repokind, <<>>, "", NoContent, <<>>, <<>>, out)
                       EXCEPT !.order = order ]
        /\ UNCHANGED <<GIT, repokind, calls, log>>

Next ==
    \/ PlistNew
    \/ PlistRead
    \/ PlistWrite
    \/ PlistDelete
    \/ PlistList
    \/ MunkiGetFullpath
    \/ MunkiNew
    \/ MunkiWrite
    \/ MunkiDelete
    \/ MunkiList

Spec == Init /\ [][Next]_vars

NextList ==
    \/ PlistList
    \/ MunkiList

SpecList == InitList /\ [][NextList]_vars

----------------------------------------------------------------------------
(* Two callers at once                                                     *)
(*                                                                         *)
(* Each caller makes one call of new or delete on the same pathname; a     *)
(* step is one filesystem call (or the mirror call) of one caller.  No     *)
(* fault is injected here: a call fails only for what the tree holds when  *)
(* it is made.                                                             *)

Callers == {1, 2}

Other(c) == CHOOSE d \in Callers : d # c

\* the pathname both callers name
ConcPathname == <<"a">>

NewOps == {"Plist.new", "MunkiFile.new"}

DeleteOps == {"Plist.delete", "MunkiFile.delete"}

\* what the two callers pass to new
ConcPlistInputs == {NoContent, Content(Doc1)}

ConcUploads == { <<<<"\\x89PNG">>, <<"IHDR">>>>, <<<<"GIF89a">>>> }

\* a call at its first step, the os.path.exists test; n counts the chunks
\* MunkiFile.write has written
Call(op, user, plist_data, fileupload) ==
    [ op |-> op, pathname |-> ConcPathname, user |-> user,
      plist_data |-> plist_data, fileupload |-> fileupload,
      pc |-> "exists", result |-> "", n |-> 0 ]

ConcCalls ==
    { Call("Plist.new", user, plist_data, <<>>) :
        user \in Users, plist_data \in ConcPlistInputs }
    \cup { Call("MunkiFile.new", user, NoContent, fileupload) :
             user \in Users, fileupload \in ConcUploads }
    \cup { Call(op, user, NoContent, <<>>) : op \in DeleteOps, user \in Users }

\* the call has returned or raised
Returned(call, result) == [call EXCEPT !.pc = "done", !.result = result]

At(call, pc) == [call EXCEPT !.pc = pc]

\* the state after a step: the tree and the caller's call
Step(f, call) == [fs |-> f, call |-> call]

\* the bytes a call of new writes
ConcData(kind, call) ==
    IF call.op = "Plist.new"
    THEN writePlistToString(PlistNewDoc(kind, call.plist_data).doc)
    ELSE Concat(call.fileupload)

\* write(2) of bytes at offset off of the file at path, through a
\* descriptor that stays valid when the path has been unlinked (the tree
\* then does not change); a gap is filled with zero bytes
WriteAt(f, path, off, bytes) ==
    IF ~isfile(f, path) THEN f
    ELSE LET old == f[path].data
             gap == [i \in 1..(off - Len(old)) |-> "\\x00"]
             padded == IF Len(old) < off THEN old \o gap ELSE old
         IN  PutFile(f, path, SubSeq(padded, 1, off) \o bytes
                              \o SubSeq(padded, off + Len(bytes) + 1, Len(padded)))

\* the offset of a descriptor after the first n chunks
OffsetAfter(fileupload, n) == Len(Concat(SubSeq(fileupload, 1, n)))

\* lines 78, 165, 205, 236: the os.path.exists test of new and of delete
ExistsStep(f, kind, call) ==
    IF call.op \in NewOps
    THEN IF exists(f, JoinPath(kind, call.pathname))
         THEN Step(f, Returned(call, "FileAlreadyExistsError"))
         ELSE Step(f, At(call, "parent"))
    ELSE IF ~exists(f, JoinPath(kind, call.pathname))
         THEN Step(f, Returned(call, "FileDoesNotExistError"))
         ELSE Step(f, At(call, "unlink"))

\* lines 89-108: with the parent directory there, Plist.new builds the
\* document and raises when the kind has no template
AfterParent(f, kind, call) ==
    IF call.op = "Plist.new" /\ ~PlistNewDoc(kind, call.plist_data).bound
    THEN Step(f, Returned(call, "UnboundLocalError"))
    ELSE Step(f, At(call, "open"))

\* lines 82, 209: the os.path.exists test of the parent directory
ParentStep(f, kind, call) ==
    IF exists(f, dirname(JoinPath(kind, call.pathname)))
    THEN AfterParent(f, kind, call)
    ELSE Step(f, At(call, "makedirs"))

\* lines 85, 212: os.makedirs, which raises when the directory exists by now
MakedirsStep(f, kind, call) ==
    LET parent == dirname(JoinPath(kind, call.pathname)) IN
    IF exists(f, parent) \/ ~CanMakedirs(f, parent)
    THEN Step(f, Returned(call, "FileWriteError"))
    ELSE AfterParent(makedirs(f, parent), kind, call)

\* OpenStep that opens with O_EXCL: it refuses a path that exists
OpenStepExclusive(f, kind, call) ==
    IF exists(f, JoinPath(kind, call.pathname))
    THEN Step(f, Returned(call, "FileAlreadyExistsError"))
    ELSE IF ~CanOpenW(f, JoinPath(kind, call.pathname))
    THEN Step(f, Returned(call, "FileWriteError"))
    ELSE Step(OpenW(f, JoinPath(kind, call.pathname)), At(call, "write"))

\* lines 110, 224: open(filepath, 'w'); Plist.new then encodes the data,
\* line 111
OpenStep(f, kind, call) ==
    LET filepath == JoinPath(kind, call.pathname) IN
    IF ~CanOpenW(f, filepath)
    THEN Step(f, Returned(call, "FileWriteError"))
    ELSE IF call.op = "Plist.new" /\ ~IsAscii(ConcData(kind, call))
    THEN Step(OpenW(f, filepath), Returned(call, "UnicodeDecodeError"))
    ELSE IF call.op = "MunkiFile.new" /\ call.fileupload = <<>>
    THEN Step(OpenW(f, filepath), Returned(call, "ok"))
    ELSE Step(OpenW(f, filepath), At(call, "write"))

\* lines 111, 226: fileref.write; Plist.new writes its data and goes on to
\* the mirror, MunkiFile.write writes the next chunk
WriteStep(f, git, kind, call) ==
    LET filepath == JoinPath(kind, call.pathname) IN
    IF call.op = "Plist.new"
    THEN Step(WriteAt(f, filepath, 0, ConcData(kind, call)),
              IF MirrorOn(git, call.user) THEN At(call, "mirror")
              ELSE Returned(call, "ok"))
    ELSE LET f1 == WriteAt(f, filepath, OffsetAfter(call.fileupload, call.n),
                           call.fileupload[call.n + 1])
             call1 == [call EXCEPT !.n = call.n + 1]
         IN  IF call1.n = Len(call.fileupload)
             THEN Step(f1, Returned(call1, "ok"))
             ELSE Step(f1, call1)

\* UnlinkStep with an unlink that passes over a path that is gone
UnlinkStepIdempotent(f, git, kind, call) ==
    Step([p \in DOMAIN f \ {JoinPath(kind, call.pathname)} |-> f[p]],
         IF call.op = "Plist.delete" /\ MirrorOn(git, call.user)
         THEN At(call, "mirror")
         ELSE Returned(call, "ok"))

\* lines 169, 240: os.unlink
UnlinkStep(f, git, kind, call) ==
    LET filepath == JoinPath(kind, call.pathname) IN
    IF ~CanUnlink(f, filepath)
    THEN Step(f, Returned(call, "FileDeleteError"))
    ELSE Step(unlink(f, filepath),
              IF call.op = "Plist.delete" /\ MirrorOn(git, call.user)
              THEN At(call, "mirror")
              ELSE Returned(call, "ok"))

\* lines 113-115, 171-173: the call to the mirror, then the return
MirrorStep(f, call) == Step(f, Returned(call, "ok"))

\* the trees the two callers start in: no kind directory, an empty kind
\* directory, the file there
ConcTrees ==
    { EmptyRepo } \cup { TreeOf(<<"manifests">>, files) : files \in SUBSET {ConcPathname} }

InitConc ==
    /\ repokind = "manifests"
    /\ GIT \in BOOLEAN
    /\ fs \in ConcTrees
    /\ last = [NoCall EXCEPT !.pre = fs]
    /\ calls \in [Callers -> ConcCalls]
    /\ log = <<>>

\* caller c takes the step st, an I/O call named io
Take(c, io, st) ==
    /\ fs' = st.fs
    /\ calls' = [calls EXCEPT ![c] = st.call]
    /\ log' = Append(log, <<c, io>>)
    /\ UNCHANGED <<GIT, last, repokind>>

ConcExists ==
    \E c \in Callers :
        /\ calls[c].pc = "exists"
        /\ Take(c, "exists", ExistsStep(fs, repokind, calls[c]))

ConcParent ==
    \E c \in Callers :
        /\ calls[c].pc = "parent"
        /\ Take(c, "parent", ParentStep(fs, repokind, calls[c]))

ConcMakedirs ==
    \E c \in Callers :
        /\ calls[c].pc = "makedirs"
        /\ Take(c, "makedirs", MakedirsStep(fs, repokind, calls[c]))

ConcOpen ==
    \E c \in Callers :
        /\ calls[c].pc = "open"
        /\ Take(c, "open", OpenStep(fs, repokind, calls[c]))

ConcWrite ==
    \E c \in Callers :
        /\ calls[c].pc = "write"
        /\ Take(c, "write", WriteStep(fs, GIT, repokind, calls[c]))

ConcUnlink ==
    \E c \in Callers :
        /\ calls[c].pc = "unlink"
        /\ Take(c, "unlink", UnlinkStep(fs, GIT, repokind, calls[c]))

ConcMirror ==
    \E c \in Callers :
        /\ calls[c].pc = "mirror"
        /\ Take(c, "mirror", MirrorStep(fs, calls[c]))

NextConc ==
    \/ ConcExists
    \/ ConcParent
    \/ ConcMakedirs
    \/ ConcOpen
    \/ ConcWrite
    \/ ConcUnlink
    \/ ConcMirror

SpecConc == InitConc /\ [][NextConc]_vars

----------------------------------------------------------------------------
(* Pathnames that lead out of the kind's directory                         *)
(*                                                                         *)
(* The handlers take the pathname as the caller gives it.  SpecPath calls  *)
(* them with pathnames that hold ".." or start with a slash, in trees that *)
(* hold the directories above REPO_DIR and the other kinds' directories.   *)

\* a, ../pkgsinfo/a, ../manifests/a, ../../a, /etc/a
PathPathnames ==
    { <<"a">>, <<"..", "pkgsinfo", "a">>, <<"..", "manifests", "a">>,
      <<"..", "..", "a">>, <<"/", "etc", "a">> }

\* the directories of the trees of SpecPath, and the files they may hold
PathDirs == { <<>>, <<"..">>, <<"/">>, <<"/", "etc">> } \cup { <<kind>> : kind \in Kinds }

PathFiles == { <<"manifests", "a">>, <<"pkgsinfo", "a">>, <<"..", "a">>, <<"/", "etc", "a">> }

PathTree(files) ==
    [ p \in PathDirs \cup files |-> IF p \in files THEN FileNode(Garbage) ELSE DirNode ]

InitPath ==
    /\ repokind \in Kinds
    /\ fs \in { PathTree(files) : files \in SUBSET PathFiles }
    /\ GIT = FALSE
    /\ last = NoCall
    /\ calls = NoCalls
    /\ log = <<>>

\* the call op with the outcome out
PathCall(op, pathname, out) ==
    /\ fs' = out.fs
    /\ last' = Record(op, repokind, pathname, "", NoContent, <<>>, <<>>, out)
    /\ UNCHANGED <<GIT, repokind, calls, log>>

PathPlistNew ==
    \E pathname \in PathPathnames :
        PathCall("Plist.new", pathname,
                 PlistNewOut(fs, GIT, repokind, pathname, "", Content(Doc1), "none"))

PathPlistRead ==
    \E pathname \in PathPathnames :
        PathCall("Plist.read", pathname, PlistReadOut(fs, repokind, pathname, "none"))

PathPlistWrite ==
    \E pathname \in PathPathnames :
        PathCall("Plist.write", pathname,
                 PlistWriteOut(fs, GIT, writePlistToString(Doc1), repokind, pathname,
                               "", "none"))

PathPlistDelete ==
    \E pathname \in PathPathnames :
        PathCall("Plist.delete", pathname,
                 PlistDeleteOut(fs, GIT, repokind, pathname, "", "none"))

PathMunkiGetFullpath ==
    \E pathname \in PathPathnames :
        PathCall("MunkiFile.get_fullpath", pathname,
                 MunkiGetFullpathOut(fs, repokind, pathname))

PathMunkiNew ==
    \E pathname \in PathPathnames, fileupload \in Uploads :
        PathCall("MunkiFile.new", pathname,
                 MunkiNewOut(fs, repokind, fileupload, pathname, "", "none"))

PathMunkiWrite ==
    \E pathname \in PathPathnames, fileupload \in Uploads :
        PathCall("MunkiFile.write", pathname,
                 MunkiWriteOut(fs, repokind, fileupload, pathname, "", "none"))

PathMunkiDelete ==
    \E pathname \in PathPathnames :
        PathCall("MunkiFile.delete", pathname,
                 MunkiDeleteOut(fs, repokind, pathname, "", "none"))

NextPath ==
    \/ PathPlistNew
    \/ PathPlistRead
    \/ PathPlistWrite
    \/ PathPlistDelete
    \/ PathMunkiGetFullpath
    \/ PathMunkiNew
    \/ PathMunkiWrite
    \/ PathMunkiDelete

SpecPath == InitPath /\ [][NextPath]_vars

----------------------------------------------------------------------------
(* Properties                                                              *)

\* the path the last call resolved
LastPath == JoinPath(last.kind, last.pathname)

FailEvents ==
    { "makedirs:fail", "open:fail", "write:fail", "unlink:fail", "read:fail",
      "mirror:fail" }

\* an I/O call of the last call failed
HadFault == \E i \in 1..Len(last.events) : last.events[i] \in FailEvents

\* the encoder's image: the byte strings that are the plist encoding of a document
IsPlistEncoding(bytes) ==
    \E doc \in {ManifestTemplate, PkgsinfoTemplate, Doc1, DocU, EmptyDoc} :
        bytes = writePlistToString(doc)

\* C1: a successful Plist.new with caller-supplied content (any mapping, the
\* empty one included), followed at once by Plist.read of the same kind and
\* pathname, reads back a mapping equal to the content supplied; the default
\* template is written only when no content was supplied.
C1_NewThenReadReturnsContent ==
    (last.op = "Plist.new" /\ last.result = "ok" /\ ~last.plist_data.isNone) =>
        LET r == PlistReadOut(fs, last.kind, last.pathname, "none") IN
        /\ r.result = "ok"
        /\ r.ret.st = "dict"
        /\ r.ret.doc = last.plist_data.doc

\* C2: new (of either store) at a path where a filesystem entry exists fails
\* with FileAlreadyExistsError, and leaves the whole tree (the entry's
\* content, the directories) as it was, makes no I/O call and does not call
\* the mirror.
C2_NewOnExistingEntryFails ==
    (last.op \in {"Plist.new", "MunkiFile.new"} /\ exists(last.pre, LastPath)) =>
        /\ last.result = "FileAlreadyExistsError"
        /\ fs = last.pre
        /\ last.events = <<>>
        /\ last.mirror = <<>>

C2_Witness ==
    /\ last.op = "Plist.new"
    /\ isfile(last.pre, LastPath)
    /\ last.pre[LastPath].data # <<>>
    /\ last.user # "" /\ GIT
    /\ last.result = "FileAlreadyExistsError"

Serialisable(kind, plist_data) ==
    IF Truthy(plist_data) THEN IsAscii(writePlistToString(plist_data.doc))
    ELSE kind \in {"manifests", "pkgsinfo"}

C5_ListNeverReturnsDotPath ==
    last.op = "Plist.list" =>
        \A i \in 1..Len(last.ret.names) :
            \A j \in 1..Len(last.ret.names[i]) :
                ~startswith_dot(last.ret.names[i][j])

\* C6: Plist.read of an existing file whose bytes are no plist encoding
\* returns the empty mapping and raises nothing, when reading the file does
\* not fail; when reading it fails, Plist.read raises FileReadError.
C6_LenientRead ==
    (last.op = "Plist.read" /\ isfile(last.pre, LastPath)
        /\ ~IsPlistEncoding(last.pre[LastPath].data)) =>
        IF HadFault THEN last.result = "FileReadError"
        ELSE /\ last.result = "ok"
             /\ last.ret = RetValue("dict", {})

\* the mirror call a Plist operation makes
MirrorCall(op) == IF op = "Plist.delete" THEN "delete" ELSE "add"

\* C7: a Plist.new, Plist.write or Plist.delete that returns success has
\* called the mirror once, with the resolved path and the user, if the user
\* is not empty and the mirror is enabled, and not at all otherwise; the
\* mirror is called only as the call that follows the completed write or
\* unlink, with the file then written (or gone); a call that fails before or
\* in its filesystem mutation has not called the mirror.
C7_MirrorNotifiedAfterMutation ==
    last.op \in {"Plist.new", "Plist.write", "Plist.delete"} =>
        /\ last.result = "ok" =>
              last.mirror = IF last.user # "" /\ GIT
                            THEN << <<MirrorCall(last.op), LastPath, last.user>> >>
                            ELSE <<>>
        /\ last.mirror # <<>> =>
              /\ Len(last.mirror) = 1
              /\ Len(last.events) >= 2
              /\ last.events[Len(last.events)] \in {"mirror", "mirror:fail"}
              /\ last.events[Len(last.events) - 1]
                    = (IF last.op = "Plist.delete" THEN "unlink" ELSE "write")
              /\ last.op = "Plist.delete" => ~exists(fs, LastPath)
              /\ last.op = "Plist.write" =>
                    isfile(fs, LastPath) /\ fs[LastPath].data = last.data
              /\ last.op = "Plist.new" =>
                    isfile(fs, LastPath) /\ IsPlistEncoding(fs[LastPath].data)
        /\ (\E i \in 1..Len(last.events) :
                last.events[i] \in {"makedirs:fail", "open:fail", "write:fail", "unlink:fail"})
              => last.mirror = <<>>
        /\ last.result \in {"FileAlreadyExistsError", "FileDoesNotExistError",
                            "UnboundLocalError", "UnicodeDecodeError"}
              => last.mirror = <<>>

C7_Witness ==
    /\ last.op = "Plist.delete"
    /\ last.result = "ok"
    /\ last.mirror = << <<"delete", LastPath, "admin">> >>

\* C8: when the filesystem mutation of Plist.new, Plist.write or
\* Plist.delete has succeeded and the mirror call fails, the operation still
\* returns success and the mutation is kept.
C8_MirrorFailureNotSurfaced ==
    (last.op \in {"Plist.new", "Plist.write", "Plist.delete"}
        /\ \E i \in 1..Len(last.events) : last.events[i] = "mirror:fail") =>
        /\ last.result = "ok"
        /\ IF last.op = "Plist.delete" THEN ~exists(fs, LastPath)
           ELSE isfile(fs, LastPath)

\* C9: a successful Plist.new without content leaves a file that reads back,
\* for kind 'manifests', as the mapping of the six section keys to empty
\* sequences and, for kind 'pkgsinfo', as the five placeholder entries; the
\* bytes new returns are the bytes of the file.
C9_DefaultTemplates ==
    (last.op = "Plist.new" /\ last.plist_data.isNone /\ last.result = "ok") =>
        LET r == PlistReadOut(fs, last.kind, last.pathname, "none") IN
        /\ isfile(fs, LastPath)
        /\ last.ret.bytes = fs[LastPath].data
        /\ r.result = "ok" /\ r.ret.st = "dict"
        /\ last.kind = "manifests" =>
              r.ret.doc = { <<"catalogs", <<"array">>>>,
                            <<"included_manifests", <<"array">>>>,
                            <<"managed_installs", <<"array">>>>,
                            <<"managed_uninstalls", <<"array">>>>,
                            <<"managed_updates", <<"array">>>>,
                            <<"optional_installs", <<"array">>>> }
        /\ last.kind = "pkgsinfo" =>
              r.ret.doc = { <<"name", <<"string", "ProductName">>>>,
                            <<"display_name", <<"string", "Display Name">>>>,
                            <<"description", <<"string", "Product description">>>>,
                            <<"version", <<"string", "1.0">>>>,
                            <<"catalogs", <<"array", "development">>>> }
        /\ last.kind \in {"manifests", "pkgsinfo"}

C9_Witness ==
    /\ last.op = "Plist.new"
    /\ last.plist_data.isNone
    /\ last.result = "ok"
    /\ last.kind = "pkgsinfo"

\* C10, as claimed: MunkiFile.write at a path where nothing exists fails
\* with FileDoesNotExistError and creates no file.
C10_WriteRequiresPresence ==
    (last.op = "MunkiFile.write" /\ ~exists(last.pre, LastPath)) =>
        /\ last.result = "FileDoesNotExistError"
        /\ fs = last.pre

\* C10, amended: MunkiFile.write makes no presence check.  At a path where
\* nothing exists it never fails with FileDoesNotExistError: it fails with
\* FileWriteError exactly when one of its I/O calls fails (the open fails
\* when the parent directory is missing), and otherwise returns success
\* with the file created and holding the upload's chunks in order.
C10_WriteCreatesAbsentFile ==
    (last.op = "MunkiFile.write" /\ ~exists(last.pre, LastPath)) =>
        /\ last.result \in {"ok", "FileWriteError"}
        /\ last.result = "FileWriteError" <=> HadFault
        /\ ~isdir(last.pre, dirname(LastPath)) => last.result = "FileWriteError"
        /\ last.result = "ok" =>
              /\ isfile(fs, LastPath)
              /\ fs[LastPath].data = Concat(last.fileupload)

C10_Witness ==
    /\ last.op = "MunkiFile.write"
    /\ ~exists(last.pre, LastPath)
    /\ last.result = "ok"
    /\ fs[LastPath].data = <<"\\x89PNG", "IHDR">>

\* C11: MunkiFile.list returns no pathname whose basename starts with a dot
\* and enters no directory whose name starts with a dot, the control
\* directories .svn, .git and .AppleDouble included: no pathname it returns
\* has a component that starts with a dot, whatever the tree holds.
C11_MunkiListNeverReturnsDotPath ==
    last.op = "MunkiFile.list" =>
        \A i \in 1..Len(last.ret.names) :
            \A j \in 1..Len(last.ret.names[i]) :
                ~startswith_dot(last.ret.names[i][j])

\* the operations that raise on an absent target, and those that raise on
\* an occupied one
RaisesOnAbsent == {"Plist.read", "Plist.delete", "MunkiFile.delete"}

RaisesOnOccupied == {"Plist.new", "MunkiFile.new"}

\* the I/O call of the last call that failed, "" when none did
FailedCall ==
    IF HadFault THEN last.events[Len(last.events)] ELSE ""

\* C12: a call of new, read, write or delete of either store in which a
\* filesystem call fails raises a domain error, by the call that failed:
\* FileWriteError for makedirs, open and write, FileDeleteError for unlink,
\* FileReadError for the read; an absent target of read or delete gives
\* FileDoesNotExistError and an occupied target of new gives
\* FileAlreadyExistsError; no error that is not of the five kinds comes out
\* of a call in which a filesystem call failed.
C12_FilesystemFailuresAreDomainErrors ==
    /\ FailedCall \in {"makedirs:fail", "open:fail", "write:fail"} =>
          last.result = "FileWriteError"
    /\ FailedCall = "unlink:fail" => last.result = "FileDeleteError"
    /\ FailedCall = "read:fail" => last.result = "FileReadError"
    /\ (last.op \in RaisesOnAbsent /\ ~exists(last.pre, LastPath)) =>
          last.result = "FileDoesNotExistError"
    /\ (last.op \in RaisesOnOccupied /\ exists(last.pre, LastPath)) =>
          last.result = "FileAlreadyExistsError"
    /\ HadFault => last.result \in DomainErrors

C12_Witness ==
    /\ last.op = "MunkiFile.delete"
    /\ isfile(last.pre, LastPath)
    /\ FailedCall = "unlink:fail"
    /\ last.result = "FileDeleteError"
    /\ fs = last.pre

\* the call created the missing parents and the file, and returned success
CreatedWithParents(out, filepath) ==
    /\ out.result = "ok"
    /\ isdir(out.fs, dirname(filepath))
    /\ isfile(out.fs, filepath)

\* the call failed with FileWriteError and left the tree as it found it
RefusedUnwritten(out, f) ==
    /\ out.result = "FileWriteError"
    /\ out.fs = f

\* C13: at a pathname whose parent directory is missing, each of Plist.new,
\* Plist.write, MunkiFile.new and MunkiFile.write creates the missing
\* directories and succeeds with the file present, when the directories can
\* be created and no I/O call fails (for Plist.new: with content it can
\* serialise); when os.makedirs fails the call raises FileWriteError and
\* the tree is unchanged.
C13_WritesCreateMissingParents ==
    \A pathname \in Pathnames, user \in Users :
        LET filepath == JoinPath(repokind, pathname) IN
        ~exists(fs, dirname(filepath)) =>
            /\ CanMakedirs(fs, dirname(filepath)) =>
                  /\ \A plist_data \in PlistInputs :
                        Serialisable(repokind, plist_data) =>
                            CreatedWithParents(
                                PlistNewOut(fs, GIT, repokind, pathname, user,
                                            plist_data, "none"), filepath)
                  /\ \A data \in DataInputs :
                        CreatedWithParents(
                            PlistWriteOut(fs, GIT, data, repokind, pathname, user,
                                          "none"), filepath)
                  /\ \A fileupload \in Uploads :
                        /\ CreatedWithParents(
                              MunkiNewOut(fs, repokind, fileupload, pathname, user,
                                          "none"), filepath)
                        /\ CreatedWithParents(
                              MunkiWriteOut(fs, repokind, fileupload, pathname, user,
                                            "none"), filepath)
            /\ \A plist_data \in PlistInputs :
                  RefusedUnwritten(
                      PlistNewOut(fs, GIT, repokind, pathname, user, plist_data,
                                  "makedirs"), fs)
            /\ \A data \in DataInputs :
                  RefusedUnwritten(
                      PlistWriteOut(fs, GIT, data, repokind, pathname, user,
                                    "makedirs"), fs)
            /\ \A fileupload \in Uploads :
                  RefusedUnwritten(
                      MunkiNewOut(fs, repokind, fileupload, pathname, user,
                                  "makedirs"), fs)

\* the pathnames, relative to the kind's directory, at which a file exists
ResourcePathnames(f, kind) ==
    { SubSeq(p, 2, Len(p)) : p \in { q \in DOMAIN f : /\ Len(q) > 1
                                                      /\ q[1] = kind
                                                      /\ isfile(f, q) } }

MunkiOps ==
    { "MunkiFile.get_fullpath", "MunkiFile.list", "MunkiFile.new",
      "MunkiFile.write", "MunkiFile.delete" }

\* C15: no call of MunkiFile.new, write, delete, list or get_fullpath
\* notifies the mirror, whatever user is and whether GIT is set or not, and
\* get_fullpath makes no I/O call and leaves the tree as it is.
C15_MunkiFileNeverNotifies ==
    last.op \in MunkiOps =>
        /\ last.mirror = <<>>
        /\ \A i \in 1..Len(last.events) : last.events[i] \notin {"mirror", "mirror:fail"}
        /\ last.op = "MunkiFile.get_fullpath" =>
              /\ last.events = <<>>
              /\ fs = last.pre
              /\ last.ret.path = LastPath

C15_Witness ==
    /\ last.op = "MunkiFile.write"
    /\ last.result = "ok"
    /\ GIT
    /\ last.user = "admin"
    /\ isfile(fs, LastPath)

\* the place in the log of caller c's first and last call io, 0 when none
FirstAt(c, io) ==
    IF \E i \in 1..Len(log) : log[i] = <<c, io>>
    THEN CHOOSE i \in 1..Len(log) :
            /\ log[i] = <<c, io>>
            /\ \A j \in 1..(i - 1) : log[j] # <<c, io>>
    ELSE 0

LastAt(c, io) ==
    IF \E i \in 1..Len(log) : log[i] = <<c, io>>
    THEN CHOOSE i \in 1..Len(log) :
            /\ log[i] = <<c, io>>
            /\ \A j \in (i + 1)..Len(log) : log[j] # <<c, io>>
    ELSE 0

BothReturned == \A c \in Callers : calls[c].pc = "done"

ConcPath == JoinPath(repokind, ConcPathname)

\* C16: of two callers of new (Plist.new or MunkiFile.new) on one pathname
\* where nothing exists, a caller is refused with FileAlreadyExistsError
\* exactly when its os.path.exists test comes after the other's open: a
\* caller that tests before the other has opened goes on to write, so both
\* can return success; and when both return success and one opened after
\* the other's last write, the file holds that one's content.
C16_NewCheckAndWriteNotAtomic ==
    \A c \in Callers :
        (/\ calls[c].pc = "done"
         /\ calls[c].op \in NewOps
         /\ calls[Other(c)].op \in NewOps
         /\ ~exists(last.pre, ConcPath)) =>
            /\ calls[c].result = "FileAlreadyExistsError"
                  <=> /\ FirstAt(Other(c), "open") # 0
                      /\ FirstAt(Other(c), "open") < FirstAt(c, "exists")
            /\ (/\ BothReturned
                /\ calls[c].result = "ok"
                /\ calls[Other(c)].result = "ok"
                /\ FirstAt(c, "open") > LastAt(Other(c), "write")) =>
                  /\ isfile(fs, ConcPath)
                  /\ fs[ConcPath].data = ConcData(repokind, calls[c])

\* both callers of Plist.new passed the test before either opened, both
\* returned success, and the file holds the later writer's content
C16_Witness ==
    /\ BothReturned
    /\ \A c \in Callers :
          /\ calls[c].op = "Plist.new"
          /\ calls[c].result = "ok"
          /\ FirstAt(c, "exists") < FirstAt(Other(c), "open")
    /\ ~exists(last.pre, ConcPath)
    /\ ConcData(repokind, calls[1]) # ConcData(repokind, calls[2])
    /\ LastAt(1, "write") < FirstAt(2, "open")
    /\ fs[ConcPath].data = ConcData(repokind, calls[2])

FilesOf(f) == { <<p, f[p].data>> : p \in { q \in DOMAIN f : isfile(f, q) } }

\* C18: a call that reports an error leaves every file as it found it: none
\* is created, removed, truncated or changed.  A new that fails with
\* FileWriteError leaves the path absent, so that a second new there is not
\* refused with FileAlreadyExistsError; a write that fails leaves the
\* content of an existing file as it was.
C18_FailedCallsChangeNoFile ==
    last.result # "ok" =>
        /\ FilesOf(fs) = FilesOf(last.pre)
        /\ (last.op \in {"Plist.new", "MunkiFile.new"}
              /\ last.result = "FileWriteError") =>
              /\ ~exists(fs, LastPath)
              /\ ~PlistNewExists(fs, LastPath)
              /\ ~MunkiNewExists(fs, LastPath)
        /\ (last.op \in {"Plist.write", "MunkiFile.write"}
              /\ isfile(last.pre, LastPath)) =>
              /\ isfile(fs, LastPath)
              /\ fs[LastPath].data = last.pre[LastPath].data

\* C19: Plist.new with plist_data=None at a kind other than manifests and
\* pkgsinfo either raises one of the five domain errors, creating no file
\* and not calling the mirror, or returns success with a file at the path
\* that reads back as the empty mapping.
C19_NoTemplateKindFailsOrWritesEmpty ==
    (last.op = "Plist.new" /\ last.plist_data.isNone
        /\ last.kind \notin {"manifests", "pkgsinfo"}) =>
        \/ /\ last.result \in DomainErrors
           /\ FilesOf(fs) = FilesOf(last.pre)
           /\ last.mirror = <<>>
        \/ /\ last.result = "ok"
           /\ isfile(fs, LastPath)
           /\ LET r == PlistReadOut(fs, last.kind, last.pathname, "none") IN
              /\ r.result = "ok"
              /\ r.ret.st = "dict"
              /\ r.ret.doc = EmptyDoc

\* the path is that of the kind's directory or of an entry below it
InsideKind(path, kind) == Len(path) >= 1 /\ path[1] = kind

\* the files of a tree that are not below the kind's directory
FilesOutside(f, kind) == { e \in FilesOf(f) : ~InsideKind(e[1], kind) }

\* C20: whatever pathname the caller gives, with ".." components or a
\* leading slash, the path that new, read, write and delete of both stores
\* and MunkiFile.get_fullpath resolve is inside the kind's directory, and no
\* call creates, overwrites or removes a file outside it.
C20_ResolvedPathInsideKind ==
    last.op # "none" =>
        /\ InsideKind(LastPath, last.kind)
        /\ last.op = "MunkiFile.get_fullpath" => InsideKind(last.ret.path, last.kind)
        /\ FilesOutside(fs, last.kind) = FilesOutside(last.pre, last.kind)

====
